---- MODULE Spec2Model ----
(***************************************************************************)
(* Model of the archaeological agent's image pipeline:                     *)
(*   image_converter.py  ensure_jpg_format / convert_to_jpg                *)
(*   image_analyzer.py   analyze_image / extract_artifacts /               *)
(*                       analyze_multiple_images                           *)
(* Text (paths, findings, narration) is a sequence of one-character        *)
(* strings, so that lower(), endswith(), "in", slicing and join are        *)
(* computed and not assumed.                                               *)
(***************************************************************************)
EXTENDS Integers, Sequences, FiniteSets, TLC

(* ------------------------------ bounds --------------------------------- *)
MaxImages == 2
MaxFindings == 2
MaxCalls == 2

(* ------------------------- text primitives ----------------------------- *)
UpperChars == <<"A", "B", "C", "D", "E", "F", "G", "H", "I", "J", "K", "L", "M", "N", "O", "P", "Q", "R", "S", "T", "U", "V", "W", "X", "Y", "Z">>
LowerChars == <<"a", "b", "c", "d", "e", "f", "g", "h", "i", "j", "k", "l", "m", "n", "o", "p", "q", "r", "s", "t", "u", "v", "w", "x", "y", "z">>

LowerChar(c) ==
    IF \E k \in 1..26 : UpperChars[k] = c
    THEN LowerChars[CHOOSE k \in 1..26 : UpperChars[k] = c]
    ELSE c

\* str.lower()
Lower(s) == [k \in 1..Len(s) |-> LowerChar(s[k])]

\* str.startswith(prefix)
StartsWith(s, prefix) ==
    /\ Len(s) >= Len(prefix)
    /\ SubSeq(s, 1, Len(prefix)) = prefix

\* str.endswith(suf)
EndsWith(s, suf) ==
    /\ Len(s) >= Len(suf)
    /\ SubSeq(s, Len(s) - Len(suf) + 1, Len(s)) = suf

\* sub in s
Contains(s, sub) ==
    \E k \in 0..(Len(s) - Len(sub)) : SubSeq(s, k + 1, k + Len(sub)) = sub

\* s.rfind(c) + 1 : position (1-based) of the last c in s, 0 when absent
RFind(s, c) ==
    IF \E k \in 1..Len(s) : s[k] = c
    THEN CHOOSE k \in 1..Len(s) : s[k] = c /\ \A j \in (k + 1)..Len(s) : s[j] # c
    ELSE 0

RECURSIVE RStrip(_, _)
RStrip(s, c) ==
    IF Len(s) > 0 /\ s[Len(s)] = c THEN RStrip(SubSeq(s, 1, Len(s) - 1), c) ELSE s

DotJpg == <<".", "j", "p", "g">>
DotJpeg == <<".", "j", "p", "e", "g">>

(* ----------------------- path library functions ------------------------ *)
\* os.path.dirname(p)
DirName(p) ==
    LET head == SubSeq(p, 1, RFind(p, "/"))
    IN  IF head # <<>> /\ RStrip(head, "/") # <<>> THEN RStrip(head, "/") ELSE head

\* Path(p).name : last component, trailing separators ignored
PathName(p) ==
    LET q == RStrip(p, "/")
    IN  SubSeq(q, RFind(q, "/") + 1, Len(q))

\* Path(p).stem : name without its last suffix
PathStem(p) ==
    LET name == PathName(p)
        i == RFind(name, ".") - 1
    IN  IF 0 < i /\ i < Len(name) - 1 THEN SubSeq(name, 1, i) ELSE name

\* os.path.join(a, b)
PathJoin(a, b) ==
    IF Len(b) > 0 /\ b[1] = "/" THEN b
    ELSE IF a = <<>> \/ a[Len(a)] = "/" THEN a \o b
    ELSE a \o <<"/">> \o b

(* -------------------------- image_converter ---------------------------- *)
SipsOutcomes == {"ok", "notfound", "timeout", "fail"}
PilOutcomes == {"ok", "importerror", "openfail", "savefail"}

JpegPath_inplace(image_path) == image_path

\* jpeg_path = os.path.join(os.path.dirname(image_path), f"{base_name}.jpg")
JpegPath(image_path) ==
    PathJoin(DirName(image_path), PathStem(image_path) \o DotJpg)

Ev(op, src, dst, ok) == [op |-> op, src |-> src, dst |-> dst, ok |-> ok]

convert_to_jpg_alwayspil(image_path, sips, pil) ==
    LET jpeg_path == JpegPath(image_path)
        sipsEv == <<Ev("sips", image_path, jpeg_path, sips = "ok")>>
        pilEv == IF pil = "importerror" THEN <<>>
                 ELSE IF pil = "openfail"
                 THEN <<Ev("pil_open", image_path, <<>>, FALSE)>>
                 ELSE <<Ev("pil_open", image_path, <<>>, TRUE),
                        Ev("pil_save", image_path, jpeg_path, pil = "ok")>>
    IN  IF sips = "ok" \/ pil = "ok"
        THEN [path |-> jpeg_path, events |-> sipsEv \o pilEv]
        ELSE [path |-> image_path, events |-> sipsEv \o pilEv]

\* convert_to_jpg: sips first, PIL only when sips did not succeed, the
\* original path when neither produced the sibling file.
convert_to_jpg(image_path, sips, pil) ==
    LET jpeg_path == JpegPath(image_path)
        sipsEv == <<Ev("sips", image_path, jpeg_path, sips = "ok")>>
        pilEv == IF pil = "importerror" THEN <<>>
                 ELSE IF pil = "openfail"
                 THEN <<Ev("pil_open", image_path, <<>>, FALSE)>>
                 ELSE <<Ev("pil_open", image_path, <<>>, TRUE),
                        Ev("pil_save", image_path, jpeg_path, pil = "ok")>>
    IN  IF sips = "ok"
        THEN [path |-> jpeg_path, events |-> sipsEv]
        ELSE IF pil = "ok"
        THEN [path |-> jpeg_path, events |-> sipsEv \o pilEv]
        ELSE [path |-> image_path, events |-> sipsEv \o pilEv]

ensure_jpg_format_casesensitive(image_path, sips, pil) ==
    IF EndsWith(image_path, DotJpg) \/ EndsWith(image_path, DotJpeg)
    THEN [path |-> image_path, events |-> <<>>]
    ELSE convert_to_jpg(image_path, sips, pil)

\* ensure_jpg_format
ensure_jpg_format(image_path, sips, pil) ==
    LET image_path_lower == Lower(image_path)
    IN  IF EndsWith(image_path_lower, DotJpg) \/ EndsWith(image_path_lower, DotJpeg)
        THEN [path |-> image_path, events |-> <<>>]
        ELSE convert_to_jpg(image_path, sips, pil)

(* ------------------------------ values --------------------------------- *)
\* Python None (a null message content); never equal to a text
NoneVal == <<"<None>">>
IsNone(x) == x = NoneVal

\* json.loads results: every value is [t, v] with v a sequence
JList(v) == [t |-> "list", v |-> v]
JDict(items) == [t |-> "dict", v |-> items]
JStr(s) == [t |-> "str", v |-> s]
JNum == [t |-> "num", v |-> <<>>]
JNull == [t |-> "null", v |-> <<>>]

\* key in d
HasKey(d, key) == \E k \in 1..Len(d.v) : d.v[k][1] = key
\* d[key]
GetKey(d, key) == d.v[CHOOSE k \in 1..Len(d.v) : d.v[k][1] = key][2]

\* an artifact record {name, time_period, country_of_origin, additional_info}
ArtifactRecord(name, time_period, country, info) ==
    JDict(<<<<"name", JStr(<<name>>)>>,
            <<"time_period", JStr(<<time_period>>)>>,
            <<"country_of_origin", JStr(<<country>>)>>,
            <<"additional_info", JStr(info)>>>>)

(* --------------------- extract_artifacts: parsing ---------------------- *)
RECURSIVE FlattenItems_append(_)
FlattenItems_append(items) ==
    IF items = <<>> THEN <<>>
    ELSE LET value == items[1][2]
             rest == FlattenItems_append(Tail(items))
         IN  IF value.t = "dict" /\ HasKey(value, "name") THEN <<value>> \o rest
             ELSE IF value.t = "list" THEN <<value>> \o rest
             ELSE rest

\* for key, value in result.items(): append a record, extend by a list
RECURSIVE FlattenItems(_)
FlattenItems(items) ==
    IF items = <<>> THEN <<>>
    ELSE LET value == items[1][2]
             rest == FlattenItems(Tail(items))
         IN  IF value.t = "dict" /\ HasKey(value, "name") THEN <<value>> \o rest
             ELSE IF value.t = "list" THEN value.v \o rest
             ELSE rest

\* the isinstance chain applied to the parsed response
ParseShapes(result) ==
    IF result.t = "list" THEN result
    ELSE IF result.t = "dict" /\ HasKey(result, "artifacts") THEN GetKey(result, "artifacts")
    ELSE IF result.t = "dict" THEN JList(FlattenItems(result.v))
    ELSE JList(<<>>)

(* ------------------ extract_artifacts: keyword fallback ---------------- *)
InfoLimit == 100
Ellipsis == <<".", ".", ".">>

Excerpt_short(analysis) ==
    IF Len(analysis) > InfoLimit THEN SubSeq(analysis, 1, InfoLimit) ELSE analysis

\* analysis[:100] + '...' if len(analysis) > 100 else analysis
Excerpt(analysis) ==
    IF Len(analysis) > InfoLimit
    THEN SubSeq(analysis, 1, InfoLimit) \o Ellipsis
    ELSE analysis

KwCoin == <<"c", "o", "i", "n">>
KwPenny == <<"p", "e", "n", "n", "y">>
KwDime == <<"d", "i", "m", "e">>
KwModern == <<"m", "o", "d", "e", "r", "n">>
KwPot == <<"p", "o", "t">>
KwVessel == <<"v", "e", "s", "s", "e", "l">>
KwSword == <<"s", "w", "o", "r", "d">>
KwBone == <<"b", "o", "n", "e">>
KwDrawing == <<"d", "r", "a", "w", "i", "n", "g">>
KwCarving == <<"c", "a", "r", "v", "i", "n", "g">>

\* the records one finding contributes, in the order of the five ifs
ScanOne(analysis) ==
    LET analysis_lower == Lower(analysis)
        info == Excerpt(analysis)
        modern == \/ Contains(analysis_lower, KwPenny)
                  \/ Contains(analysis_lower, KwDime)
                  \/ Contains(analysis_lower, KwModern)
    IN  (IF Contains(analysis_lower, KwCoin)
         THEN <<ArtifactRecord("Coin",
                    IF modern THEN "Modern (2000-2024)" ELSE "Unknown (possibly Ancient)",
                    IF modern THEN "United States" ELSE "Unknown", info)>>
         ELSE <<>>)
        \o (IF Contains(analysis_lower, KwPot) \/ Contains(analysis_lower, KwVessel)
            THEN <<ArtifactRecord("Brass Pot", "Medieval to Modern (1000-1800 CE)",
                                  "Middle East or Europe", info)>>
            ELSE <<>>)
        \o (IF Contains(analysis_lower, KwSword)
            THEN <<ArtifactRecord("Sword", "Medieval to Ancient (500 BCE - 1500 CE)",
                                  "Europe or Middle East", info)>>
            ELSE <<>>)
        \o (IF Contains(analysis_lower, KwBone)
            THEN <<ArtifactRecord("Bone", "Unknown (Prehistoric to Modern)", "Unknown", info)>>
            ELSE <<>>)
        \o (IF Contains(analysis_lower, KwDrawing) \/ Contains(analysis_lower, KwCarving)
            THEN <<ArtifactRecord("Stone Drawing", "Prehistoric to Ancient (3000 BCE - 500 CE)",
                                  "Various (depends on style)", info)>>
            ELSE <<>>)

RECURSIVE KeywordFallback_dedup(_)
KeywordFallback_dedup(all_analyses_) ==
    IF all_analyses_ = <<>> THEN [raised |-> FALSE, v |-> <<>>]
    ELSE IF IsNone(all_analyses_[1]) THEN [raised |-> TRUE, v |-> <<>>]
    ELSE LET rest == KeywordFallback_dedup(Tail(all_analyses_))
             mine == SelectSeq(ScanOne(all_analyses_[1]),
                        LAMBDA r : \A k \in 1..Len(rest.v) :
                                       GetKey(rest.v[k], "name") # GetKey(r, "name"))
         IN  [raised |-> rest.raised, v |-> mine \o rest.v]

\* the except branch: for analysis in all_analyses: analysis.lower() ...;
\* a None finding has no lower() and the AttributeError leaves the handler
RECURSIVE KeywordFallback(_)
KeywordFallback(all_analyses_) ==
    IF all_analyses_ = <<>> THEN [raised |-> FALSE, v |-> <<>>]
    ELSE IF IsNone(all_analyses_[1]) THEN [raised |-> TRUE, v |-> <<>>]
    ELSE LET rest == KeywordFallback(Tail(all_analyses_))
         IN  [raised |-> rest.raised, v |-> ScanOne(all_analyses_[1]) \o rest.v]

(* --------------------------- extract_artifacts ------------------------- *)
\* A response of the extraction request: kind is "request_error" (the call
\* raised), "null" (content is None), "invalid" (content is not JSON) or
\* "json" (content parses to the value json).
extract_artifacts(all_analyses_, resp) ==
    IF resp.kind = "json"
    THEN [raised |-> FALSE, fellback |-> FALSE, value |-> ParseShapes(resp.json),
          requests |-> 1]
    ELSE LET fb == KeywordFallback(all_analyses_)
         IN  [raised |-> fb.raised, fellback |-> TRUE, value |-> JList(fb.v),
              requests |-> 1]

(* ------------------------------ analyze_image -------------------------- *)
CouldNot == <<"C", "o", "u", "l", "d", " ", "n", "o", "t", " ", "a", "n", "a", "l", "y", "z", "e", " ", "i", "m", "a", "g", "e", ":", " ">>

\* What the vision step meets: kind is "read_error" (open/read raised),
\* "api_error" (the request raised) or "content" (message.content = text,
\* which the API types as optional: NoneVal is a null content).
Out(kind, text) == [kind |-> kind, text |-> text]

VisionOutcomes ==
    { Out("read_error", <<"E", "N", "O", "E", "N", "T">>),
      Out("api_error", <<"q", "u", "o", "t", "a">>),
      Out("content", NoneVal),
      Out("content", <<>>),
      Out("content", <<"A", " ", "s", "w", "o", "r", "d">>),
      Out("content", <<"S", "W", "O", "R", "D">>) }

\* a remote model request: which call, for which image (0: the whole run),
\* whether it returned a response, and the response content or error text
Rq(kind, image, ok, text) == [kind |-> kind, image |-> image, ok |-> ok, text |-> text]

analyze_image_bare(image_path, sips, pil, out) ==
    LET jpg == ensure_jpg_format(image_path, sips, pil)
    IN  [success |-> out.kind = "content",
         analysis |-> out.text,
         opened |-> jpg.path,
         sent |-> IF out.kind = "read_error" THEN <<>> ELSE jpg.path,
         requests |-> IF out.kind = "read_error" THEN 0 ELSE 1]

analyze_image_retry(image_path, sips, pil, out) ==
    LET jpg == ensure_jpg_format(image_path, sips, pil)
    IN  [success |-> out.kind = "content",
         analysis |-> IF out.kind = "content" THEN out.text ELSE CouldNot \o out.text,
         opened |-> jpg.path,
         sent |-> IF out.kind = "read_error" THEN <<>> ELSE jpg.path,
         requests |-> IF out.kind = "read_error" THEN 0
                      ELSE IF out.kind = "api_error" THEN 2 ELSE 1]

\* analyze_image: normalize again, read, one vision request; every
\* exception becomes {'success': False, 'analysis': "Could not analyze ..."}
analyze_image(image_path, sips, pil, out) ==
    LET jpg == ensure_jpg_format(image_path, sips, pil)
    IN  [success |-> out.kind = "content",
         analysis |-> IF out.kind = "content" THEN out.text ELSE CouldNot \o out.text,
         opened |-> jpg.path,
         sent |-> IF out.kind = "read_error" THEN <<>> ELSE jpg.path,
         requests |-> IF out.kind = "read_error" THEN 0 ELSE 1]

(* --------------------------- narration fallback ------------------------ *)
BlankLine == <<"\n", "\n">>

RECURSIVE Join_nosep(_, _)
Join_nosep(sep, items) ==
    IF items = <<>> THEN <<>>
    ELSE items[1] \o Join_nosep(sep, Tail(items))

\* sep.join(items), for items that are all str
RECURSIVE Join(_, _)
Join(sep, items) ==
    IF items = <<>> THEN <<>>
    ELSE IF Len(items) = 1 THEN items[1]
    ELSE items[1] \o sep \o Join(sep, Tail(items))

\* join raises TypeError on an item that is not a str
JoinRaises(items) == \E k \in 1..Len(items) : IsNone(items[k])

NarrationOutcomes ==
    { Out("api_error", <<"q", "u", "o", "t", "a">>),
      Out("content", NoneVal),
      Out("content", <<>>),
      Out("content", <<"H", "i", ",", " ", "j", "u", "d", "g", "e", "s">>) }

Unable == <<"U", "n", "a", "b", "l", "e", " ", "t", "o", " ", "a", "n", "a", "l", "y", "z", "e", " ", "a", "n", "y", " ", "i", "m", "a", "g", "e", "s", ".">>

(* --------------------------- model responses --------------------------- *)
RecCoin == ArtifactRecord("Coin", "Modern (2024)", "United States", <<"p", "e", "n", "n", "y">>)
RecPot == ArtifactRecord("Brass Pot", "Medieval (1000-1500 CE)", "Middle East or Europe", <<"l", "i", "d">>)

\* record sequences a response can carry
CarriedSeqs == << <<>>, <<RecCoin>>, <<RecCoin, RecPot>>, <<RecPot, RecCoin>>, <<RecCoin, RecCoin>> >>

ItemKeys == <<"item1", "item2", "item3">>

\* the three documented shapes of one record sequence
Bare(rs) == JList(rs)
Wrapped(rs) == JDict(<< <<"artifacts", JList(rs)>> >>)
WrappedExtra(rs) == JDict(<< <<"count", JNum>>, <<"artifacts", JList(rs)>> >>)
ObjRecords(rs) == JDict([k \in 1..Len(rs) |-> <<ItemKeys[k], rs[k]>>])
ObjLists(rs) == JDict(<< <<"items", JList(rs)>> >>)
ObjMixed(rs) ==
    IF rs = <<>> THEN JDict(<< <<"note", JNull>> >>)
    ELSE JDict(<< <<"item1", rs[1]>>, <<"more", JList(Tail(rs))>> >>)

Resp(kind, json, shape, carried) ==
    [kind |-> kind, json |-> json, shape |-> shape, carried |-> carried]

Shaped(k) ==
    LET rs == CarriedSeqs[k]
    IN  << Resp("json", Bare(rs), "bare", rs),
           Resp("json", Wrapped(rs), "wrapped", rs),
           Resp("json", WrappedExtra(rs), "wrapped", rs),
           Resp("json", ObjRecords(rs), "object", rs),
           Resp("json", ObjLists(rs), "object", rs),
           Resp("json", ObjMixed(rs), "object", rs) >>

Unshaped ==
    << Resp("request_error", JNull, "none", <<>>),
       Resp("null", JNull, "none", <<>>),
       Resp("invalid", JNull, "none", <<>>),
       Resp("json", JNum, "none", <<>>),
       Resp("json", JDict(<< <<"artifacts", RecCoin>> >>), "none", <<>>) >>

ExtractResponses ==
    Unshaped \o Shaped(1) \o Shaped(2) \o Shaped(3) \o Shaped(4) \o Shaped(5)

\* responses drawn in the pipeline run
MainResponses ==
    << Resp("request_error", JNull, "none", <<>>),
       Resp("null", JNull, "none", <<>>),
       Resp("invalid", JNull, "none", <<>>),
       Resp("json", Wrapped(<<RecCoin>>), "wrapped", <<RecCoin>>),
       Resp("json", ObjRecords(<<RecCoin, RecPot>>), "object", <<RecCoin, RecPot>>) >>

NoResp == Resp("unset", JNull, "none", <<>>)

(* ------------------------------- inputs -------------------------------- *)
MainPaths == << <<"d", "/", "a", ".", "h", "e", "i", "c">>, <<"d", "/", "a", ".", "j", "p", "g">> >>

Digits == <<"0", "1", "2", "3", "4", "5", "6", "7", "8", "9">>
\* a text of n characters
LongText(n) == [k \in 1..n |-> Digits[(k % 10) + 1]]

FindingPool ==
    << NoneVal,
       <<"A", " ", "s", "w", "o", "r", "d">>,
       <<"S", "W", "O", "R", "D">>,
       <<"o", "l", "d", " ", "s", "w", "o", "r", "d", ",", " ", "p", "o", "t">>,
       <<"a", " ", "c", "o", "i", "n">>,
       <<"v", "e", "s", "s", "e", "l", ",", " ", "C", "a", "r", "v", "i", "n", "g",
         ",", " ", "b", "o", "n", "e">>,
       <<"r", "o", "c", "k">>,
       KwCoin \o LongText(InfoLimit - 4),
       KwCoin \o LongText(InfoLimit - 3),
       LongText(InfoLimit - 2) \o KwSword >>

\* paths with what Python's str.lower().endswith and
\* os.path.join(os.path.dirname(p), Path(p).stem + ".jpg") give for them
PathTable ==
    <<[path |-> <<"a", ".", "j", "p", "g">>, jpeg |-> TRUE, sibling |-> <<>>],
      [path |-> <<"b", ".", "J", "P", "G">>, jpeg |-> TRUE, sibling |-> <<>>],
      [path |-> <<"c", ".", "j", "p", "e", "g">>, jpeg |-> TRUE, sibling |-> <<>>],
      [path |-> <<"d", "/", "e", ".", "J", "p", "E", "g">>, jpeg |-> TRUE, sibling |-> <<>>],
      [path |-> <<"a", ".", "h", "e", "i", "c">>, jpeg |-> FALSE, sibling |-> <<"a", ".", "j", "p", "g">>],
      [path |-> <<"d", "/", "a", ".", "H", "E", "I", "C">>, jpeg |-> FALSE, sibling |-> <<"d", "/", "a", ".", "j", "p", "g">>],
      [path |-> <<"d", "/", "a", ".", "h", "e", "i", "c">>, jpeg |-> FALSE, sibling |-> <<"d", "/", "a", ".", "j", "p", "g">>],
      [path |-> <<"d", "/", "a", ".", "j", "p", "g">>, jpeg |-> TRUE, sibling |-> <<>>],
      [path |-> <<"d", "/", "b", ".", "p", "n", "g">>, jpeg |-> FALSE, sibling |-> <<"d", "/", "b", ".", "j", "p", "g">>],
      [path |-> <<"d", "/", "b", ".", "j", "p", "g">>, jpeg |-> TRUE, sibling |-> <<>>],
      [path |-> <<"e">>, jpeg |-> FALSE, sibling |-> <<"e", ".", "j", "p", "g">>],
      [path |-> <<"e", ".", "j", "p", "g">>, jpeg |-> TRUE, sibling |-> <<>>],
      [path |-> <<"x", ".", "t", "a", "r", ".", "g", "z">>, jpeg |-> FALSE, sibling |-> <<"x", ".", "t", "a", "r", ".", "j", "p", "g">>],
      [path |-> <<"x", ".", "t", "a", "r", ".", "j", "p", "g">>, jpeg |-> TRUE, sibling |-> <<>>],
      [path |-> <<".", "h", "e", "i", "c">>, jpeg |-> FALSE, sibling |-> <<".", "h", "e", "i", "c", ".", "j", "p", "g">>],
      [path |-> <<".", "h", "e", "i", "c", ".", "j", "p", "g">>, jpeg |-> TRUE, sibling |-> <<>>],
      [path |-> <<"f", ".", "j", "p", "g", ".", "p", "n", "g">>, jpeg |-> FALSE, sibling |-> <<"f", ".", "j", "p", "g", ".", "j", "p", "g">>],
      [path |-> <<"f", ".", "j", "p", "g", ".", "j", "p", "g">>, jpeg |-> TRUE, sibling |-> <<>>],
      [path |-> <<"j", "p", "g">>, jpeg |-> FALSE, sibling |-> <<"j", "p", "g", ".", "j", "p", "g">>],
      [path |-> <<"j", "p", "g", ".", "j", "p", "g">>, jpeg |-> TRUE, sibling |-> <<>>],
      [path |-> <<"/", "g", ".", "b", "m", "p">>, jpeg |-> FALSE, sibling |-> <<"/", "g", ".", "j", "p", "g">>],
      [path |-> <<"/", "g", ".", "j", "p", "g">>, jpeg |-> TRUE, sibling |-> <<>>]>>

Expect(p) == PathTable[CHOOSE k \in 1..Len(PathTable) : PathTable[k].path = p]

\* sequences of length 0..n over the entries of the tuple pool
SeqsUpTo(pool, n) ==
    UNION { { [k \in 1..m |-> pool[f[k]]] : f \in [1..m -> 1..Len(pool)] } : m \in 0..n }

(* ------------------------------- state --------------------------------- *)
VARIABLES
    image_paths,       \* the argument of analyze_multiple_images
    pc,                \* position in the run
    jpg_image_paths,   \* normalized paths collected so far
    all_analyses,      \* findings collected so far
    artifacts,         \* result of extract_artifacts
    narration_text,    \* the narration returned
    recog,             \* per processed image, the result of analyze_image
    ex,                \* the response the extraction met, and whether it fell back
    narr,              \* the outcome the narration request met
    cv,                \* converter run: index of the input path
    calls,             \* converter run: the ensure_jpg_format calls made
    reqs,              \* the remote model requests issued so far, in order
    cli,               \* main(): arguments, environment, position, effects
    drive,             \* download_recent_images: folder, listing, downloads
    tts,               \* text_to_speech: arguments, outcome, result
    page,              \* a generated presentation page open in the browser
    calc               \* the calculator: volume, songs, timer threads

vars == <<image_paths, pc, jpg_image_paths, all_analyses, artifacts,
          narration_text, recog, ex, narr, cv, calls, reqs, cli, drive, tts,
          page, calc>>

NoOut == Out("unset", <<>>)
NoCli == [at |-> "unused"]
NoDrive == [at |-> "unused"]
NoTts == [at |-> "unused"]
NoPage == [at |-> "unused"]
NoCalc == [at |-> "unused"]
NoEx == [resp |-> NoResp, fellback |-> FALSE]

BlankRun(paths, analyses, at, c) ==
    /\ image_paths = paths
    /\ pc = at
    /\ jpg_image_paths = <<>>
    /\ all_analyses = analyses
    /\ artifacts = JList(<<>>)
    /\ narration_text = NoneVal
    /\ recog = <<>>
    /\ ex = NoEx
    /\ narr = NoOut
    /\ cv = c
    /\ calls = <<>>
    /\ reqs = <<>>

Blank(paths, analyses, at, c) ==
    /\ BlankRun(paths, analyses, at, c)
    /\ page = NoPage
    /\ calc = NoCalc
    /\ cli = NoCli
    /\ drive = NoDrive
    /\ tts = NoTts

(* -------------------- analyze_multiple_images ------------------------- *)
Init == \E paths \in SeqsUpTo(MainPaths, MaxImages) : Blank(paths, <<>>, "loop", 0)

LoopDone == Len(jpg_image_paths) = Len(image_paths)

Normalize_insertfront ==
    /\ pc = "loop"
    /\ ~LoopDone
    /\ \E sips \in SipsOutcomes, pil \in PilOutcomes :
         LET image_path == image_paths[Len(jpg_image_paths) + 1]
             jpg == ensure_jpg_format(image_path, sips, pil)
         IN  jpg_image_paths' = <<jpg.path>> \o jpg_image_paths
    /\ pc' = "analyze"
    /\ UNCHANGED <<image_paths, all_analyses, artifacts, narration_text, recog, ex, narr, cv, calls, reqs, cli, drive, tts, page, calc>>

\* lines 294-295: jpg_path = ensure_jpg_format(image_path); append it
Normalize ==
    /\ pc = "loop"
    /\ ~LoopDone
    /\ \E sips \in SipsOutcomes, pil \in PilOutcomes :
         LET image_path == image_paths[Len(jpg_image_paths) + 1]
             jpg == ensure_jpg_format(image_path, sips, pil)
         IN  jpg_image_paths' = Append(jpg_image_paths, jpg.path)
    /\ pc' = "analyze"
    /\ UNCHANGED <<image_paths, all_analyses, artifacts, narration_text, recog, ex, narr, cv, calls, reqs, cli, drive, tts, page, calc>>

AnalyzeImage_keepfailed ==
    /\ pc = "analyze"
    /\ \E sips \in SipsOutcomes, pil \in PilOutcomes, out \in VisionOutcomes :
         LET jpg_path == jpg_image_paths[Len(jpg_image_paths)]
             result == analyze_image(jpg_path, sips, pil, out)
         IN  /\ recog' = Append(recog, result)
             /\ reqs' = reqs \o [j \in 1..result.requests |->
                                   Rq("vision", Len(recog) + 1, out.kind = "content", out.text)]
             /\ all_analyses' = Append(all_analyses, result.analysis)
    /\ pc' = "loop"
    /\ UNCHANGED <<image_paths, jpg_image_paths, artifacts, narration_text, ex, narr, cv, calls, cli, drive, tts, page, calc>>

\* lines 298-300: result = analyze_image(jpg_path); keep a successful analysis
AnalyzeImage ==
    /\ pc = "analyze"
    /\ \E sips \in SipsOutcomes, pil \in PilOutcomes, out \in VisionOutcomes :
         LET jpg_path == jpg_image_paths[Len(jpg_image_paths)]
             result == analyze_image(jpg_path, sips, pil, out)
         IN  /\ recog' = Append(recog, result)
             /\ reqs' = reqs \o [j \in 1..result.requests |->
                                   Rq("vision", Len(recog) + 1, out.kind = "content", out.text)]
             /\ all_analyses' = IF result.success
                                THEN Append(all_analyses, result.analysis)
                                ELSE all_analyses
    /\ pc' = "loop"
    /\ UNCHANGED <<image_paths, jpg_image_paths, artifacts, narration_text, ex, narr, cv, calls, cli, drive, tts, page, calc>>

ReturnSentinel_nopaths ==
    /\ pc = "loop"
    /\ LoopDone
    /\ all_analyses = <<>>
    /\ narration_text' = Unable
    /\ artifacts' = JList(<<>>)
    /\ jpg_image_paths' = <<>>
    /\ pc' = "returned"
    /\ UNCHANGED <<image_paths, all_analyses, recog, ex, narr, cv, calls, reqs, cli, drive, tts, page, calc>>

\* lines 303-304: no finding at all
ReturnSentinel ==
    /\ pc = "loop"
    /\ LoopDone
    /\ all_analyses = <<>>
    /\ narration_text' = Unable
    /\ artifacts' = JList(<<>>)
    /\ pc' = "returned"
    /\ UNCHANGED <<image_paths, jpg_image_paths, all_analyses, recog, ex, narr, cv, calls, reqs, cli, drive, tts, page, calc>>

ExtractArtifacts_noguard ==
    /\ pc = "loop"
    /\ LoopDone
    /\ \E k \in 1..Len(MainResponses) :
         LET r == extract_artifacts(all_analyses, MainResponses[k])
         IN  /\ ex' = [resp |-> MainResponses[k], fellback |-> r.fellback]
             /\ reqs' = reqs \o [j \in 1..r.requests |->
                                   Rq("extract", 0, MainResponses[k].kind # "request_error", <<>>)]
             /\ artifacts' = IF r.raised THEN artifacts ELSE r.value
             /\ pc' = IF r.raised THEN "raised" ELSE "narrate"
    /\ UNCHANGED <<image_paths, jpg_image_paths, all_analyses, narration_text, recog, narr, cv, calls, cli, drive, tts, page, calc>>

\* line 307: artifacts = self.extract_artifacts(all_analyses)
ExtractArtifacts ==
    /\ pc = "loop"
    /\ LoopDone
    /\ all_analyses # <<>>
    /\ \E k \in 1..Len(MainResponses) :
         LET r == extract_artifacts(all_analyses, MainResponses[k])
         IN  /\ ex' = [resp |-> MainResponses[k], fellback |-> r.fellback]
             /\ reqs' = reqs \o [j \in 1..r.requests |->
                                   Rq("extract", 0, MainResponses[k].kind # "request_error", <<>>)]
             /\ artifacts' = IF r.raised THEN artifacts ELSE r.value
             /\ pc' = IF r.raised THEN "raised" ELSE "narrate"
    /\ UNCHANGED <<image_paths, jpg_image_paths, all_analyses, narration_text, recog, narr, cv, calls, cli, drive, tts, page, calc>>

\* lines 310-363: one narration request; on an exception the findings joined
ComposeNarration ==
    /\ pc = "narrate"
    /\ \E out \in NarrationOutcomes :
         /\ narr' = out
         /\ reqs' = Append(reqs, Rq("narrate", 0, out.kind = "content", out.text))
         /\ IF out.kind = "content"
            THEN /\ narration_text' = out.text
                 /\ pc' = "returned"
            ELSE IF JoinRaises(all_analyses)
            THEN /\ narration_text' = narration_text
                 /\ pc' = "raised"
            ELSE /\ narration_text' = Join(BlankLine, all_analyses)
                 /\ pc' = "returned"
    /\ UNCHANGED <<image_paths, jpg_image_paths, all_analyses, artifacts, recog, ex, cv, calls, cli, drive, tts, page, calc>>

Next == Normalize \/ AnalyzeImage \/ ReturnSentinel \/ ExtractArtifacts \/ ComposeNarration

Spec == Init /\ [][Next]_vars

(* ----------------------- extract_artifacts alone ----------------------- *)
InitExtract ==
    \E analyses \in SeqsUpTo(FindingPool, MaxFindings) : Blank(<<>>, analyses, "extract_call", 0)

\* one call of extract_artifacts(all_analyses)
ExtractCall ==
    /\ pc = "extract_call"
    /\ \E k \in 1..Len(ExtractResponses) :
         LET r == extract_artifacts(all_analyses, ExtractResponses[k])
         IN  /\ ex' = [resp |-> ExtractResponses[k], fellback |-> r.fellback]
             /\ reqs' = reqs \o [j \in 1..r.requests |->
                                   Rq("extract", 0, ExtractResponses[k].kind # "request_error", <<>>)]
             /\ artifacts' = IF r.raised THEN artifacts ELSE r.value
             /\ pc' = IF r.raised THEN "extract_raised" ELSE "extract_returned"
    /\ UNCHANGED <<image_paths, jpg_image_paths, all_analyses, narration_text, recog, narr, cv, calls, cli, drive, tts, page, calc>>

NextExtract == ExtractCall

SpecExtract == InitExtract /\ [][NextExtract]_vars

(* ----------------------- ensure_jpg_format alone ----------------------- *)
InitConvert == \E c \in 1..Len(PathTable) : Blank(<<>>, <<>>, "convert_call", c)

\* a caller normalizes a path and then, as analyze_image does with the
\* path it is handed, normalizes the returned path again
EnsureJpgCall ==
    /\ pc = "convert_call"
    /\ Len(calls) < MaxCalls
    /\ \E sips \in SipsOutcomes, pil \in PilOutcomes :
         LET input == IF calls = <<>> THEN PathTable[cv].path ELSE calls[Len(calls)].output
             r == ensure_jpg_format(input, sips, pil)
         IN  calls' = Append(calls, [input |-> input, output |-> r.path,
                                     sips |-> sips, pil |-> pil, events |-> r.events])
    /\ UNCHANGED <<image_paths, pc, jpg_image_paths, all_analyses, artifacts,
                   narration_text, recog, ex, narr, cv, reqs, cli, drive, tts, page, calc>>

NextConvert == EnsureJpgCall

SpecConvert == InitConvert /\ [][NextConvert]_vars

(* --------------------------- audio_generator --------------------------- *)
max_length == 5000

\* What a call meets: "no_gtts" (the import failed, gTTS is None),
\* "synth_error" (gTTS(...) raises), "save_error" (tts.save raises), "ok".
TtsOutcomes == {"no_gtts", "synth_error", "save_error", "ok"}

text_to_speech_cut(text, env) ==
    IF env = "no_gtts" \/ IsNone(text)
    THEN [ret |-> FALSE, spoken |-> NoneVal, saved |-> FALSE]
    ELSE LET t == IF Len(text) > max_length THEN SubSeq(text, 1, max_length) ELSE text
         IN  [ret |-> env = "ok", spoken |-> t, saved |-> env = "ok"]

\* text_to_speech: False without gTTS; len(None) raises into the handler;
\* text[:max_length] + "..." when too long; gTTS(text=...) then save
text_to_speech(text, env) ==
    IF env = "no_gtts" \/ IsNone(text)
    THEN [ret |-> FALSE, spoken |-> NoneVal, saved |-> FALSE]
    ELSE LET t == IF Len(text) > max_length
                  THEN SubSeq(text, 1, max_length) \o Ellipsis
                  ELSE text
         IN  [ret |-> env = "ok", spoken |-> t, saved |-> env = "ok"]

SpeechTexts ==
    << NoneVal, <<>>, <<"H", "i", ",", " ", "j", "u", "d", "g", "e", "s">>, Unable,
       LongText(max_length - 1), LongText(max_length), LongText(max_length + 1),
       LongText(max_length + 4) >>

InitSpeech ==
    \E k \in 1..Len(SpeechTexts), lang \in {"en", "fr"}, slow \in BOOLEAN :
        /\ BlankRun(<<>>, <<>>, "speech_call", 0)
        /\ page = NoPage
        /\ calc = NoCalc
        /\ cli = NoCli
        /\ drive = NoDrive
        /\ tts = [at |-> "call", text |-> SpeechTexts[k], lang |-> lang, slow |-> slow,
                  env |-> "unset", ret |-> FALSE, spoken |-> NoneVal, saved |-> FALSE]

\* one call of text_to_speech(text, output_path, lang, slow)
TextToSpeechCall ==
    /\ tts.at = "call"
    /\ \E env \in TtsOutcomes :
         LET r == text_to_speech(tts.text, env)
         IN  tts' = [tts EXCEPT !.at = "done", !.env = env, !.ret = r.ret,
                                !.spoken = r.spoken, !.saved = r.saved]
    /\ UNCHANGED <<image_paths, pc, jpg_image_paths, all_analyses, artifacts,
                   narration_text, recog, ex, narr, cv, calls, reqs, cli, drive, page, calc>>

NextSpeech == TextToSpeechCall

SpecSpeech == InitSpeech /\ [][NextSpeech]_vars

(* ----------------------------- google_drive ----------------------------- *)
MaxCount == 3

IMAGE_EXTENSIONS ==
    { <<".", "j", "p", "g">>, <<".", "j", "p", "e", "g">>, <<".", "p", "n", "g">>,
      <<".", "h", "e", "i", "c">>, <<".", "H", "E", "I", "C">>, <<".", "g", "i", "f">>,
      <<".", "b", "m", "p">>, <<".", "w", "e", "b", "p">> }

ImageSlash == <<"i", "m", "a", "g", "e", "/">>
MimeJpeg == ImageSlash \o <<"j", "p", "e", "g">>
MimePng == ImageSlash \o <<"p", "n", "g">>
MimeText == <<"t", "e", "x", "t", "/", "p", "l", "a", "i", "n">>
MimeBinary == <<"a", "p", "p", "/", "b", "i", "n">>

\* one entry of results['files']
DriveFile(id, name, modifiedTime, createdTime, mimeType) ==
    [id |-> id, name |-> name, modifiedTime |-> modifiedTime,
     createdTime |-> createdTime, mimeType |-> mimeType]

\* the files a folder may hold; times are instants, larger is later
DrivePool ==
    << DriveFile(1, <<"a", ".", "j", "p", "g">>, 2, 1, MimeJpeg),
       DriveFile(2, <<"b", ".", "H", "E", "I", "C">>, 2, 2, MimeBinary),
       DriveFile(3, <<"n", ".", "t", "x", "t">>, 3, 1, MimeText),
       DriveFile(4, <<"s", "c", "a", "n">>, 1, 3, MimePng),
       DriveFile(5, <<"s", "/", "c", ".", "p", "n", "g">>, 3, 3, MimePng),
       DriveFile(6, <<"a", ".", "j", "p", "g">>, 1, 1, MimeJpeg) >>

\* orderBy="modifiedTime desc,createdTime desc"
ListedBefore(f, g) ==
    \/ f.modifiedTime > g.modifiedTime
    \/ f.modifiedTime = g.modifiedTime /\ f.createdTime > g.createdTime

\* the listing the service returns for a folder (a set of pool indices)
RECURSIVE ServerListing(_)
ServerListing(folder) ==
    IF folder = {} THEN <<>>
    ELSE LET first == CHOOSE i \in folder :
                        \A j \in folder \ {i} : ListedBefore(DrivePool[i], DrivePool[j])
         IN  <<DrivePool[first]>> \o ServerListing(folder \ {first})

ListingOutcomes == {"ok", "http_error", "transport_error"}
DownloadOutcomes == {"ok", "http_error", "transport_error"}

\* list_files_in_folder: only HttpError is handled
list_files_in_folder(folder, env) ==
    IF env = "ok" THEN [raised |-> FALSE, files |-> ServerListing(folder)]
    ELSE IF env = "http_error" THEN [raised |-> FALSE, files |-> <<>>]
    ELSE [raised |-> TRUE, files |-> <<>>]

is_image(file) ==
    \/ \E ext \in IMAGE_EXTENSIONS : EndsWith(Lower(file.name), Lower(ext))
    \/ StartsWith(file.mimeType, ImageSlash)

\* file.get('modifiedTime') or file.get('createdTime', ''); 0 is an absent time
get_timestamp(file) ==
    IF file.modifiedTime # 0 THEN file.modifiedTime ELSE file.createdTime

\* list.sort(key=get_timestamp, reverse=True): stable, equal keys keep
\* their order
RECURSIVE SortNewestFirst(_)
SortNewestFirst(files) ==
    IF files = <<>> THEN <<>>
    ELSE LET rest == SortNewestFirst(SubSeq(files, 1, Len(files) - 1))
             x == files[Len(files)]
             n == Cardinality({k \in 1..Len(rest) :
                                 get_timestamp(rest[k]) >= get_timestamp(x)})
         IN  SubSeq(rest, 1, n) \o <<x>> \o SubSeq(rest, n + 1, Len(rest))

\* download_file: open(os.path.join(output_dir, file_name), 'wb') comes
\* first and raises when the name leads into a directory that does not
\* exist; the transfer follows, and only its HttpError is handled
download_file(file, output_dir, env) ==
    LET file_path == PathJoin(output_dir, file.name)
    IN  IF DirName(file_path) # output_dir \/ env = "transport_error"
        THEN [raised |-> TRUE, path |-> NoneVal]
        ELSE IF env = "http_error" THEN [raised |-> FALSE, path |-> NoneVal]
        ELSE [raised |-> FALSE, path |-> file_path]

\* the download loop over image_files[:num_images]; envs[k] is what the
\* k-th download meets
RECURSIVE DownloadLoop(_, _, _, _)
DownloadLoop(chosen, output_dir, envs, k) ==
    IF k > Len(chosen)
    THEN [raised |-> FALSE, paths |-> <<>>, ids |-> <<>>, tried |-> <<>>]
    ELSE LET r == download_file(chosen[k], output_dir, envs[k])
         IN  IF r.raised
             THEN [raised |-> TRUE, paths |-> <<>>, ids |-> <<>>,
                   tried |-> <<chosen[k].id>>]
             ELSE LET more == DownloadLoop(chosen, output_dir, envs, k + 1)
                      got == ~IsNone(r.path) /\ r.path # <<>>
                  IN  [raised |-> more.raised,
                       paths |-> IF more.raised THEN <<>>
                                 ELSE IF got THEN <<r.path>> \o more.paths
                                 ELSE more.paths,
                       ids |-> IF more.raised THEN <<>>
                               ELSE IF got THEN <<chosen[k].id>> \o more.ids
                               ELSE more.ids,
                       tried |-> <<chosen[k].id>> \o more.tried]

Min(a, b) == IF a < b THEN a ELSE b

download_recent_images(folder, num_images, output_dir, listing, envs) ==
    LET listed == list_files_in_folder(folder, listing)
        image_files == SortNewestFirst(SelectSeq(listed.files, is_image))
        chosen == SubSeq(image_files, 1, Min(num_images, Len(image_files)))
        loop == DownloadLoop(chosen, output_dir, envs, 1)
    IN  IF listed.raised
        THEN [raised |-> TRUE, paths |-> <<>>, ids |-> <<>>, tried |-> <<>>]
        ELSE loop

OutputDir == <<"d">>

InitDrive ==
    \E folder \in SUBSET (1..Len(DrivePool)), n \in 1..MaxCount :
        /\ BlankRun(<<>>, <<>>, "drive_call", 0)
        /\ page = NoPage
        /\ calc = NoCalc
        /\ cli = NoCli
        /\ tts = NoTts
        /\ drive = [at |-> "call", folder |-> folder, num_images |-> n,
                    listing |-> "unset", envs |-> <<>>,
                    paths |-> <<>>, ids |-> <<>>, tried |-> <<>>]

\* one call of download_recent_images(folder_id, num_images, output_dir)
DownloadRecentCall ==
    /\ drive.at = "call"
    /\ \E listing \in ListingOutcomes, envs \in [1..MaxCount -> DownloadOutcomes] :
         LET r == download_recent_images(drive.folder, drive.num_images, OutputDir,
                                         listing, envs)
         IN  drive' = [drive EXCEPT !.at = IF r.raised THEN "raised" ELSE "returned",
                                    !.listing = listing,
                                    !.envs = [k \in 1..Len(r.tried) |-> envs[k]],
                                    !.paths = r.paths, !.ids = r.ids,
                                    !.tried = r.tried]
    /\ UNCHANGED <<image_paths, pc, jpg_image_paths, all_analyses, artifacts,
                   narration_text, recog, ex, narr, cv, calls, reqs, cli, tts, page, calc>>

NextDrive == DownloadRecentCall

SpecDrive == InitDrive /\ [][NextDrive]_vars

(* -------------------------------- main --------------------------------- *)
\* the folders of a whole run: indices into DrivePool
MainFolders == { {}, {1}, {1, 2} }

\* saved token: absent, valid, or expired with a refresh token
TokenStates == {"none", "valid", "refreshable"}
\* creds.refresh(...) and flow.run_local_server(...)
AuthOutcomes == {"ok", "error"}

Key == <<"k">>

InitMain ==
    \E n \in 0..MaxImages, flag \in {NoneVal, Key}, env \in {NoneVal, Key},
       token \in TokenStates, creds \in BOOLEAN, folder \in MainFolders :
        /\ BlankRun(<<>>, <<>>, "main", 0)
        /\ page = NoPage
        /\ calc = NoCalc
        /\ tts = NoTts
        /\ drive = [at |-> "idle", folder |-> folder, num_images |-> n,
                    listing |-> "unset", envs |-> <<>>,
                    paths |-> <<>>, ids |-> <<>>, tried |-> <<>>]
        /\ cli = [at |-> "start", num_images |-> n, openai_key |-> flag,
                  environ_key |-> env, token |-> token, credentials |-> creds,
                  log |-> <<>>, raised |-> "none", pending |-> "none",
                  exit_code |-> 0, slides |-> <<>>,
                  temp_dir |-> "none", cleanup |-> "none", cwd |-> {}]

MainRest == <<image_paths, jpg_image_paths, all_analyses, artifacts,
              narration_text, recog, ex, narr, cv, calls, reqs>>

Raise(c, event, exc) ==
    [c EXCEPT !.at = "except", !.log = @ \o event, !.raised = exc, !.pending = exc]

CheckCount_negative ==
    /\ cli.at = "start"
    /\ cli' = IF cli.num_images < 0
              THEN [cli EXCEPT !.at = "exited", !.raised = "SystemExit",
                               !.pending = "SystemExit", !.exit_code = 1]
              ELSE [cli EXCEPT !.at = "step1", !.log = Append(@, "mkdtemp"),
                               !.temp_dir = "exists"]
    /\ UNCHANGED <<MainRest, pc, drive, tts, page, calc>>

\* lines 56-64: sys.exit(1) on a count below 1, else the temporary folder
CheckCount ==
    /\ cli.at = "start"
    /\ cli' = IF cli.num_images < 1
              THEN [cli EXCEPT !.at = "exited", !.raised = "SystemExit",
                               !.pending = "SystemExit", !.exit_code = 1]
              ELSE [cli EXCEPT !.at = "step1", !.log = Append(@, "mkdtemp"),
                               !.temp_dir = "exists"]
    /\ UNCHANGED <<MainRest, pc, drive, tts, page, calc>>

\* line 74, GoogleDriveDownloader(): _authenticate
Authenticate ==
    /\ cli.at = "step1"
    /\ \E out \in AuthOutcomes :
         cli' = IF cli.token = "valid"
                THEN [cli EXCEPT !.at = "download", !.log = Append(@, "authenticate")]
                ELSE IF cli.token = "none" /\ ~cli.credentials
                THEN Raise(cli, <<"authenticate">>, "SystemExit")
                ELSE IF out = "ok"
                THEN [cli EXCEPT !.at = "download", !.log = Append(@, "authenticate")]
                ELSE Raise(cli, <<"authenticate">>, "RefreshError")
    /\ UNCHANGED <<MainRest, pc, drive, tts, page, calc>>

\* lines 75-81: download_recent_images, return when nothing came down
DownloadImages ==
    /\ cli.at = "download"
    /\ \E listing \in ListingOutcomes, envs \in [1..MaxCount -> DownloadOutcomes] :
         LET r == download_recent_images(drive.folder, cli.num_images, OutputDir,
                                         listing, envs)
             events == <<"list">> \o [k \in 1..Len(r.tried) |-> "download"]
         IN  /\ drive' = [drive EXCEPT !.at = IF r.raised THEN "raised" ELSE "returned",
                                       !.listing = listing,
                                       !.envs = [k \in 1..Len(r.tried) |-> envs[k]],
                                       !.paths = r.paths, !.ids = r.ids,
                                       !.tried = r.tried]
             /\ cli' = IF r.raised THEN Raise(cli, events, "OSError")
                       ELSE [cli EXCEPT !.at = IF r.paths = <<>> THEN "finally" ELSE "step2",
                                        !.log = @ \o events]
    /\ UNCHANGED <<MainRest, pc, tts, page, calc>>

\* line 85, ImageAnalyzer(api_key=args.openai_key)
InitAnalyzer ==
    /\ cli.at = "step2"
    /\ LET api_key == IF ~IsNone(cli.openai_key) /\ cli.openai_key # <<>>
                      THEN cli.openai_key ELSE cli.environ_key
       IN  cli' = IF IsNone(api_key) \/ api_key = <<>>
                  THEN Raise(cli, <<"analyzer_init">>, "SystemExit")
                  ELSE [cli EXCEPT !.at = "analyze", !.log = Append(@, "analyzer_init")]
    /\ UNCHANGED <<MainRest, pc, drive, tts, page, calc>>

\* line 87: analyze_multiple_images(image_paths) is entered
CallAnalyze ==
    /\ cli.at = "analyze"
    /\ cli' = [cli EXCEPT !.at = "analyzing", !.log = Append(@, "analyze")]
    /\ image_paths' = drive.paths
    /\ pc' = "loop"
    /\ UNCHANGED <<jpg_image_paths, all_analyses, artifacts, narration_text,
                   recog, ex, narr, cv, calls, reqs, drive, tts, page, calc>>

\* an exception leaves analyze_multiple_images
AnalyzeRaised ==
    /\ cli.at = "analyzing"
    /\ pc = "raised"
    /\ cli' = Raise(cli, <<>>, IF narr = NoOut THEN "AttributeError" ELSE "TypeError")
    /\ UNCHANGED <<MainRest, pc, drive, tts, page, calc>>

\* lines 90-127: the result is unpacked into two names, then audio, when
\* audio succeeded the presentation, and when that returned a path the
\* browser; create_presentation returns output_path unless writing the
\* page raises
UnpackAndPresent ==
    /\ cli.at = "analyzing"
    /\ pc = "returned"
    /\ LET narration_result == <<narration_text, jpg_image_paths, artifacts>>
       IN  IF Len(narration_result) = 2
           THEN \E env \in TtsOutcomes, written \in {"ok", "write_error"} :
                  LET r == text_to_speech(narration_result[1], env)
                      spoken == [cli EXCEPT !.log = Append(@, "text_to_speech"),
                                            !.cwd = IF r.saved THEN @ \cup {"mp3"} ELSE @]
                      shown == [spoken EXCEPT !.log = Append(@, "create_presentation"),
                                              !.slides = narration_result[2]]
                  IN  /\ tts' = [at |-> "done", text |-> narration_result[1],
                                 lang |-> "en", slow |-> FALSE, env |-> env,
                                 ret |-> r.ret, spoken |-> r.spoken, saved |-> r.saved]
                      /\ cli' = IF ~r.ret
                                THEN [spoken EXCEPT !.at = "finally"]
                                ELSE IF written = "write_error"
                                THEN Raise(shown, <<>>, "OSError")
                                ELSE [shown EXCEPT !.at = "finally",
                                                   !.log = Append(@, "open_in_browser"),
                                                   !.cwd = @ \cup {"html"}]
           ELSE /\ tts' = tts
                /\ cli' = Raise(cli, <<>>, "ValueError")
    /\ UNCHANGED <<MainRest, pc, drive, page, calc>>

ExceptionClasses == {"ValueError", "OSError", "RefreshError", "AttributeError", "TypeError"}

\* lines 129 and 131: except KeyboardInterrupt, except Exception
Caught(exc) == exc = "KeyboardInterrupt" \/ exc \in ExceptionClasses

HandleException ==
    /\ cli.at = "except"
    /\ cli' = [cli EXCEPT !.at = "finally",
                          !.pending = IF Caught(cli.pending) THEN "none" ELSE @]
    /\ UNCHANGED <<MainRest, pc, drive, tts, page, calc>>

ExitCode_zero(pending) == 0

\* the interpreter's exit status: 0 after main returns, 1 for sys.exit(1)
\* and for any other exception that leaves main
ExitCode(pending) == IF pending = "none" THEN 0 ELSE 1

\* shutil.rmtree(temp_dir) removes the folder or raises; its exception is
\* caught at line 141
CleanUpAndExit_afterwards ==
    /\ cli.at = "finally"
    /\ \E out \in {"ok", "error"} :
         cli' = IF cli.pending # "none"
                THEN [cli EXCEPT !.at = "exited", !.exit_code = ExitCode(cli.pending)]
                ELSE [cli EXCEPT !.at = "exited", !.log = Append(@, "rmtree"),
                                 !.cleanup = out,
                                 !.temp_dir = IF out = "ok" THEN "removed" ELSE @,
                                 !.exit_code = ExitCode(cli.pending)]
    /\ UNCHANGED <<MainRest, pc, drive, tts, page, calc>>

\* lines 135-142 and the end of the process
CleanUpAndExit ==
    /\ cli.at = "finally"
    /\ \E out \in {"ok", "error"} :
         cli' = [cli EXCEPT !.at = "exited", !.log = Append(@, "rmtree"),
                            !.cleanup = out,
                            !.temp_dir = IF out = "ok" THEN "removed" ELSE @,
                            !.exit_code = ExitCode(cli.pending)]
    /\ UNCHANGED <<MainRest, pc, drive, tts, page, calc>>

\* Ctrl-C while main is inside its try block
Interrupt ==
    /\ cli.at \in {"step1", "download", "step2", "analyze", "analyzing"}
    /\ cli' = Raise(cli, <<>>, "KeyboardInterrupt")
    /\ UNCHANGED <<MainRest, pc, drive, tts, page, calc>>

\* the steps of analyze_multiple_images, taken while main is in the call
MainNormalize == cli.at = "analyzing" /\ Normalize
MainAnalyzeImage == cli.at = "analyzing" /\ AnalyzeImage
MainReturnSentinel == cli.at = "analyzing" /\ ReturnSentinel
MainExtractArtifacts == cli.at = "analyzing" /\ ExtractArtifacts
MainComposeNarration == cli.at = "analyzing" /\ ComposeNarration

NextMain ==
    \/ CheckCount \/ Authenticate \/ DownloadImages \/ InitAnalyzer \/ CallAnalyze
    \/ MainNormalize \/ MainAnalyzeImage \/ MainReturnSentinel
    \/ MainExtractArtifacts \/ MainComposeNarration
    \/ AnalyzeRaised \/ UnpackAndPresent \/ Interrupt \/ HandleException
    \/ CleanUpAndExit

SpecMain == InitMain /\ [][NextMain]_vars

(* ----------------------------- presentation ---------------------------- *)
MaxSlides == 3

\* image paths handed to create_presentation, and whether the file exists
SlidePool ==
    << [path |-> <<"d", "/", "a", ".", "j", "p", "g">>, exists |-> TRUE],
       [path |-> <<"d", "/", "b", ".", "p", "n", "g">>, exists |-> TRUE],
       [path |-> <<"d", "/", "g", ".", "j", "p", "g">>, exists |-> FALSE] >>

\* lines 35-53: one entry per path that exists, in order
RECURSIVE image_data_list(_)
image_data_list(slides) ==
    IF slides = <<>> THEN <<>>
    ELSE (IF slides[1].exists THEN <<[name |-> PathName(slides[1].path)]>> ELSE <<>>)
         \o image_data_list(Tail(slides))

\* the page as written: images embedded, "1" in currentSlide, the count in
\* totalSlides, currentIndex = 0, no image shown, audio paused
create_presentation(slides) ==
    LET images == image_data_list(slides)
    IN  [at |-> "open", images |-> images, currentIndex |-> 0, currentSlide |-> 1,
         totalSlides |-> Len(images), imageInfo |-> <<>>, loaded |-> FALSE,
         paused |-> TRUE]

InitPage ==
    \E slides \in SeqsUpTo(SlidePool, MaxSlides) :
        /\ BlankRun(<<>>, <<>>, "page", 0)
        /\ cli = NoCli
        /\ drive = NoDrive
        /\ tts = NoTts
        /\ calc = NoCalc
        /\ page = create_presentation(slides)

\* showImage(index)
showImage(pg, index) ==
    IF index < 0 \/ index >= Len(pg.images) THEN pg
    ELSE [pg EXCEPT !.currentIndex = index,
                    !.imageInfo = pg.images[index + 1].name,
                    !.currentSlide = index + 1]

nextImage(pg) ==
    IF pg.currentIndex < Len(pg.images) - 1 THEN showImage(pg, pg.currentIndex + 1) ELSE pg

previousImage(pg) ==
    IF pg.currentIndex > 0 THEN showImage(pg, pg.currentIndex - 1) ELSE pg

playPauseAudio(pg) == [pg EXCEPT !.paused = ~@]

\* window load: showImage(0)
PageLoad ==
    /\ page.at = "open"
    /\ ~page.loaded
    /\ page' = [showImage(page, 0) EXCEPT !.loaded = TRUE]
    /\ UNCHANGED <<MainRest, pc, cli, drive, tts, calc>>

\* the three buttons
ClickNext ==
    /\ page.at = "open"
    /\ page' = nextImage(page)
    /\ UNCHANGED <<MainRest, pc, cli, drive, tts, calc>>

ClickPrevious ==
    /\ page.at = "open"
    /\ page' = previousImage(page)
    /\ UNCHANGED <<MainRest, pc, cli, drive, tts, calc>>

ClickPlay ==
    /\ page.at = "open"
    /\ page' = playPauseAudio(page)
    /\ UNCHANGED <<MainRest, pc, cli, drive, tts, calc>>

\* the keydown listener
KeyDown ==
    /\ page.at = "open"
    /\ \E key \in {"ArrowRight", " ", "ArrowLeft", "Enter", "x"} :
         page' = IF key = "ArrowRight" \/ key = " " THEN nextImage(page)
                 ELSE IF key = "ArrowLeft" THEN previousImage(page)
                 ELSE IF key = "Enter" THEN playPauseAudio(page)
                 ELSE page
    /\ UNCHANGED <<MainRest, pc, cli, drive, tts, calc>>

NextPage == PageLoad \/ ClickNext \/ ClickPrevious \/ ClickPlay \/ KeyDown

SpecPage == InitPage /\ [][NextPage]_vars

(* ------------------------------ calculator ----------------------------- *)
MaxTime == 30
MaxSongs == 2

LowVolume == 10
LoudVolume == 80
SleepSeconds == 20
SongThreshold == 20

\* numbers the user may enter
NumberPool == {0, 4, 5, 6}

\* osascript sets the volume, or fails without a trace
VolumeOutcomes == {"ok", "fail"}

\* set_system_volume(volume_percent)
set_system_volume(current, volume_percent, out) ==
    LET capped == IF volume_percent > 100 THEN 100 ELSE volume_percent
        volume == IF capped < 0 THEN 0 ELSE capped
    IN  IF out = "ok" THEN volume ELSE current

InitCalc ==
    /\ BlankRun(<<>>, <<>>, "calculator", 0)
    /\ cli = NoCli
    /\ drive = NoDrive
    /\ tts = NoTts
    /\ page = NoPage
    /\ calc = [at |-> "calculate", now |-> 0, volume |-> 50, song |-> "none",
               started |-> -1, threads |-> {}, songs |-> 0, gap |-> -1]

\* calculate(): two numbers; a product above or below 20 starts a song:
\* volume 10, the video opened, a daemon thread started
Calculate ==
    /\ calc.at = "calculate"
    /\ \E num1 \in NumberPool, num2 \in NumberPool, out \in VolumeOutcomes :
         LET multiplication_result == num1 * num2
             song == IF multiplication_result > SongThreshold THEN "The Wheels on the Bus"
                     ELSE IF multiplication_result < SongThreshold THEN "Baby Shark"
                     ELSE "none"
         IN  /\ song = "none" \/ calc.songs < MaxSongs
             /\ calc' = IF song = "none"
                        THEN [calc EXCEPT !.at = "ask"]
                        ELSE [calc EXCEPT
                                !.at = "ask",
                                !.volume = set_system_volume(@, LowVolume, out),
                                !.song = song,
                                !.started = calc.now,
                                !.songs = @ + 1,
                                !.threads = @ \cup {[id |-> calc.songs + 1,
                                                     wake |-> calc.now + SleepSeconds]}]
    /\ UNCHANGED <<MainRest, pc, cli, drive, tts, page>>

\* main(): "calculate again?"; the daemon threads end with the process
Answer ==
    /\ calc.at = "ask"
    /\ \E response \in {"no", "n", "yes", "y", "maybe"} :
         calc' = IF response \in {"no", "n"}
                 THEN [calc EXCEPT !.at = "ended", !.threads = {}]
                 ELSE IF response \in {"yes", "y"}
                 THEN [calc EXCEPT !.at = "calculate"]
                 ELSE calc
    /\ UNCHANGED <<MainRest, pc, cli, drive, tts, page>>

\* increase_volume after its sleep: set_system_volume(80)
IncreaseVolume ==
    /\ \E t \in calc.threads, out \in VolumeOutcomes :
         /\ calc.now >= t.wake
         /\ calc' = [calc EXCEPT
                       !.threads = @ \ {t},
                       !.volume = set_system_volume(@, LoudVolume, out),
                       !.gap = IF out = "ok" THEN calc.now - calc.started ELSE @]
    /\ UNCHANGED <<MainRest, pc, cli, drive, tts, page>>

\* a second passes while the program waits for input or sleeps
Tick ==
    /\ calc.at \in {"calculate", "ask"}
    /\ calc.now < MaxTime
    /\ calc' = [calc EXCEPT !.now = @ + 1]
    /\ UNCHANGED <<MainRest, pc, cli, drive, tts, page>>

NextCalc == Calculate \/ Answer \/ IncreaseVolume \/ Tick

SpecCalc == InitCalc /\ [][NextCalc]_vars

(* ============================== claims ================================= *)
Failed(k) == ~recog[k].success

\* the recognized findings among the first n processed images, in order
RECURSIVE Succeeded(_)
Succeeded(n) ==
    IF n = 0 THEN <<>>
    ELSE IF recog[n].success THEN Append(Succeeded(n - 1), recog[n].analysis)
    ELSE Succeeded(n - 1)

\* C1: the returned normalized-path sequence has the length of the input,
\* and its i-th element is the normalization of the i-th input path: the
\* path itself when it is already JPEG, else the path itself or its sibling
\* <stem>.jpg, whatever recognitions failed.
C1_PathsSameLengthAndOrder ==
    pc = "returned" =>
        /\ Len(jpg_image_paths) = Len(image_paths)
        /\ \A k \in 1..Len(image_paths) :
             IF Expect(image_paths[k]).jpeg
             THEN jpg_image_paths[k] = image_paths[k]
             ELSE jpg_image_paths[k] \in {image_paths[k], Expect(image_paths[k]).sibling}

C1_Witness ==
    /\ pc = "returned"
    /\ Len(image_paths) = 2
    /\ image_paths[1] # image_paths[2]
    /\ jpg_image_paths[1] # image_paths[1]
    /\ Failed(1)
    /\ ~Failed(2)

\* C2: when every recognition of the run failed, the run returns the
\* sentinel narration, an empty artifact list and all the normalized paths.
C2_AllFailedSentinel ==
    (pc = "returned" /\ \A k \in 1..Len(recog) : Failed(k)) =>
        /\ narration_text = Unable
        /\ artifacts = JList(<<>>)
        /\ Len(jpg_image_paths) = Len(image_paths)
        /\ \A k \in 1..Len(image_paths) :
             jpg_image_paths[k] \in {image_paths[k], Expect(image_paths[k]).sibling}

C2_Witness ==
    /\ pc = "returned"
    /\ Len(recog) = 2
    /\ Failed(1) /\ Failed(2)
    /\ jpg_image_paths[1] # image_paths[1]

\* C3: at every point of the run the findings are exactly the analyses of
\* the processed images whose recognition succeeded, in image order; they
\* are never more than the input images and no failed image's placeholder
\* is among them.
C3_FindingsAreSuccesses ==
    /\ Len(recog) <= Len(image_paths)
    /\ all_analyses = Succeeded(Len(recog))
    /\ Len(all_analyses) <= Len(image_paths)
    /\ \A k \in 1..Len(recog) :
         Failed(k) => \A j \in 1..Len(all_analyses) : all_analyses[j] # recog[k].analysis

C3_Witness ==
    /\ Len(recog) = 2
    /\ Failed(1) /\ ~Failed(2)
    /\ Len(all_analyses) = 1

\* the value is a list holding exactly the records rs, in order
SameRecords(value, rs) ==
    /\ value.t = "list"
    /\ Len(value.v) = Len(rs)
    /\ \A k \in 1..Len(rs) : value.v[k].t = "dict" /\ value.v[k] = rs[k]

\* C4: a response in any of the three shapes (bare array; object with the
\* "artifacts" key; object of records or of arrays of records) yields
\* exactly the record sequence it carries, so equivalent responses yield
\* the same result.
C4_ShapesAgree ==
    (pc = "extract_returned" /\ ex.resp.shape \in {"bare", "wrapped", "object"}) =>
        /\ ~ex.fellback
        /\ SameRecords(artifacts, ex.resp.carried)

C4_Witness ==
    /\ pc = "extract_returned"
    /\ ex.resp.shape = "object"
    /\ Len(ex.resp.carried) = 2
    /\ ex.resp.json.v[1][2].t = "dict"
    /\ ex.resp.json.v[2][2].t = "list"
    /\ SameRecords(artifacts, ex.resp.carried)

\* number of records of the list named name
RECURSIVE CountName(_, _)
CountName(recs, name) ==
    IF recs = <<>> THEN 0
    ELSE (IF GetKey(recs[1], "name") = JStr(<<name>>) THEN 1 ELSE 0)
         + CountName(Tail(recs), name)

\* number of findings whose lowercased text contains "sword"
RECURSIVE SwordFindings(_)
SwordFindings(fs) ==
    IF fs = <<>> THEN 0
    ELSE (IF Contains(Lower(fs[1]), KwSword) THEN 1 ELSE 0) + SwordFindings(Tail(fs))

FellBack == pc = "extract_returned" /\ ex.fellback

\* C5 as stated: after a fallback with some finding containing "sword",
\* the result holds exactly one record named "Sword".
C5_ExactlyOneSword ==
    (FellBack /\ \E k \in 1..Len(all_analyses) : Contains(all_analyses[k], KwSword)) =>
        CountName(artifacts.v, "Sword") = 1

\* C5 amended: the fallback result holds exactly one record named "Sword"
\* for each finding whose lowercased text contains "sword".
C5_OneSwordPerFinding ==
    FellBack => CountName(artifacts.v, "Sword") = SwordFindings(all_analyses)

C5_Witness ==
    /\ FellBack
    /\ Len(all_analyses) = 2
    /\ SwordFindings(all_analyses) = 2
    /\ CountName(artifacts.v, "Sword") = 2

Converted(c) == c.events # <<>>

\* C6: a path ending in .jpg or .jpeg, in any letter case, is returned
\* as it is, with no conversion attempt, subprocess, read or write.
C6_JpegUntouched ==
    \A k \in 1..Len(calls) :
        Expect(calls[k].input).jpeg =>
            /\ calls[k].output = calls[k].input
            /\ calls[k].events = <<>>

C6_Witness ==
    \E k \in 1..Len(calls) :
        /\ Expect(calls[k].input).jpeg
        /\ Lower(calls[k].input) # calls[k].input
        /\ calls[k].output = calls[k].input

\* position where the k-th item starts in the joined text, minus one
RECURSIVE Offset(_, _)
Offset(items, k) ==
    IF k = 1 THEN 0 ELSE Offset(items, k - 1) + Len(items[k - 1]) + 2

\* C7: with at least one finding and a failed narration request, the
\* narration returned is the findings in order, a blank line between each
\* two, and nothing else.
C7_FallbackIsJoin ==
    (pc = "returned" /\ narr.kind = "api_error" /\ all_analyses # <<>>) =>
        LET n == Len(all_analyses)
        IN  /\ Len(narration_text) = Offset(all_analyses, n) + Len(all_analyses[n])
            /\ \A k \in 1..n :
                 LET o == Offset(all_analyses, k)
                 IN  /\ SubSeq(narration_text, o + 1, o + Len(all_analyses[k])) = all_analyses[k]
                     /\ k > 1 => SubSeq(narration_text, o - 1, o) = <<"\n", "\n">>

C7_Witness ==
    /\ pc = "returned"
    /\ narr.kind = "api_error"
    /\ Len(all_analyses) = 2
    /\ all_analyses[1] # all_analyses[2]
    /\ Len(narration_text) = Len(all_analyses[1]) + Len(all_analyses[2]) + 2

\* C8: for every combination of outcomes of the recognition, extraction
\* and narration calls the run returns normally, and what it returns as
\* narration is a string.
C8_AlwaysReturnsString ==
    /\ pc # "raised"
    /\ pc = "returned" => ~IsNone(narration_text)

\* C9: for a non-JPEG path the converter is a first-success-wins chain:
\* sips first and the sibling path when it succeeds; PIL only after sips
\* did not succeed, and the sibling path when PIL succeeds; the original
\* path when both fail.
C9_FirstSuccessWins ==
    \A k \in 1..Len(calls) :
        LET c == calls[k]
            sibling == Expect(c.input).sibling
        IN  ~Expect(c.input).jpeg =>
              /\ Len(c.events) >= 1
              /\ c.events[1].op = "sips"
              /\ c.sips = "ok" => (c.output = sibling /\ Len(c.events) = 1)
              /\ (c.sips # "ok" /\ c.pil = "ok") =>
                     /\ c.output = sibling
                     /\ c.events[Len(c.events)] = Ev("pil_save", c.input, sibling, TRUE)
              /\ (c.sips # "ok" /\ c.pil # "ok") => c.output = c.input
              /\ \A j \in 2..Len(c.events) : c.events[j].op \in {"pil_open", "pil_save"}

C9_Witness ==
    \E k \in 1..Len(calls) :
        /\ ~Expect(calls[k].input).jpeg
        /\ calls[k].sips = "timeout"
        /\ calls[k].pil = "ok"
        /\ calls[k].output = Expect(calls[k].input).sibling
        /\ calls[k].output # calls[k].input

\* C10: a conversion never writes the file it converts: every path an
\* attempt writes differs from the input path, which is only read.
C10_OriginalOnlyRead ==
    \A k \in 1..Len(calls) :
        \A j \in 1..Len(calls[k].events) :
            LET e == calls[k].events[j]
            IN  /\ e.src = calls[k].input
                /\ e.dst # calls[k].input
                /\ e.op \in {"sips", "pil_save"} => e.dst = Expect(calls[k].input).sibling

C10_Witness ==
    \E k \in 1..Len(calls) :
        /\ Len(calls[k].events) = 3
        /\ calls[k].events[3].op = "pil_save"
        /\ calls[k].events[3].ok
        /\ calls[k].events[3].dst # calls[k].input

\* the requests of one kind issued for one image (0: for the whole run)
RequestsOf(kind, image) ==
    SelectSeq(reqs, LAMBDA q : q.kind = kind /\ q.image = image)

\* C11: analyze_image always yields a result: success with the model's
\* text when its request returned, else no success with the placeholder
\* "Could not analyze image: ..."; and the run never ends its loop before
\* the last image, whichever images failed.
C11_FailureIsPlaceholder ==
    /\ \A k \in 1..Len(recog) :
         LET rq == RequestsOf("vision", k)
             answered == Len(rq) >= 1 /\ rq[Len(rq)].ok
         IN  /\ recog[k].success <=> answered
             /\ answered => recog[k].analysis = rq[Len(rq)].text
             /\ ~answered => StartsWith(recog[k].analysis, CouldNot)
    /\ pc \in {"narrate", "returned", "raised"} => Len(recog) = Len(image_paths)

C11_Witness ==
    /\ Len(recog) = 2
    /\ ~recog[1].success
    /\ Len(RequestsOf("vision", 1)) = 1
    /\ StartsWith(recog[1].analysis, CouldNot)
    /\ recog[2].success

\* C16: no remote call is retried: at most one vision request per image,
\* at most one extraction request and at most one narration request.
C16_NoRetry ==
    /\ \A k \in 1..Len(image_paths) : Len(RequestsOf("vision", k)) <= 1
    /\ Len(RequestsOf("extract", 0)) <= 1
    /\ Len(RequestsOf("narrate", 0)) <= 1
    /\ \A j \in 1..Len(reqs) :
         \/ reqs[j].kind = "vision" /\ reqs[j].image \in 1..Len(image_paths)
         \/ reqs[j].kind \in {"extract", "narrate"} /\ reqs[j].image = 0

C16_Witness ==
    /\ pc = "returned"
    /\ Len(reqs) = 4
    /\ ~reqs[1].ok
    /\ reqs[2].ok
    /\ ~reqs[3].ok
    /\ ~reqs[4].ok

\* C19: the extraction and narration requests are issued only with at
\* least one finding and only after every image was normalized and
\* recognized; a run without findings issues neither.
C19_AggregateAfterLoop ==
    \A j \in 1..Len(reqs) :
        reqs[j].kind \in {"extract", "narrate"} =>
            /\ all_analyses # <<>>
            /\ Len(jpg_image_paths) = Len(image_paths)
            /\ Len(recog) = Len(image_paths)
            /\ \A i \in 1..Len(reqs) : reqs[i].kind = "vision" => i < j

C19_Witness ==
    /\ pc = "returned"
    /\ Len(image_paths) = 2
    /\ Len(all_analyses) = 1
    /\ Len(reqs) = 4
    /\ reqs[3].kind = "extract"
    /\ reqs[4].kind = "narrate"

\* C20: a failed extraction or narration call never aborts the run: after
\* a failed extraction the narration request is still issued and the
\* artifacts are the keyword-fallback records; after a failed narration the
\* artifacts are those the extraction produced and the paths are unchanged.
C20_FailureOnlyDegrades ==
    /\ pc # "raised"
    /\ (pc = "returned" /\ ex.fellback) =>
          /\ Len(RequestsOf("narrate", 0)) = 1
          /\ artifacts = JList(KeywordFallback(all_analyses).v)
    /\ (pc = "returned" /\ narr.kind = "api_error") =>
          /\ Len(jpg_image_paths) = Len(image_paths)
          /\ ex.resp.shape # "none" => SameRecords(artifacts, ex.resp.carried)

\* C12: the synthesizer gets a text of at most 5000 characters unchanged
\* and a longer one as its first 5000 characters followed by "..."; the
\* call returns True exactly when synthesis and saving succeeded and False
\* on every failure.
C12_SpeechTruncation ==
    tts.at = "done" =>
        /\ ~IsNone(tts.spoken) =>
             IF Len(tts.text) <= 5000
             THEN tts.spoken = tts.text
             ELSE /\ Len(tts.spoken) = 5003
                  /\ \A k \in 1..5000 : tts.spoken[k] = tts.text[k]
                  /\ \A k \in 5001..5003 : tts.spoken[k] = "."
        /\ tts.ret <=> (tts.env = "ok" /\ tts.saved /\ ~IsNone(tts.spoken))
        /\ tts.env # "ok" => ~tts.ret

C12_Witness ==
    /\ tts.at = "done"
    /\ Len(tts.text) = 5001
    /\ tts.ret
    /\ Len(tts.spoken) = 5003

\* the images of the folder that the claim's order puts ahead of file i
AheadOf(i) ==
    { j \in drive.folder : /\ j # i
                           /\ is_image(DrivePool[j])
                           /\ ListedBefore(DrivePool[j], DrivePool[i]) }

\* the num_images most recent images of the folder
MostRecent ==
    { i \in drive.folder : /\ is_image(DrivePool[i])
                           /\ Cardinality(AheadOf(i)) < drive.num_images }

\* the download of file i failed
DownloadFailed(i) ==
    \E k \in 1..Len(drive.tried) : drive.tried[k] = i /\ drive.envs[k] # "ok"

\* C18: download_recent_images returns at most num_images paths, all of
\* image files, most recently modified first with ties broken by created
\* time; a file whose download fails is omitted and the others keep their
\* order; a listing error yields an empty result.
C18_RecentImages ==
    /\ drive.at # "raised"
    /\ drive.at = "returned" =>
        /\ Len(drive.paths) <= drive.num_images
        /\ Len(drive.paths) = Len(drive.ids)
        /\ \A k \in 1..Len(drive.ids) :
             /\ is_image(DrivePool[drive.ids[k]])
             /\ drive.paths[k] = OutputDir \o <<"/">> \o DrivePool[drive.ids[k]].name
        /\ \A k, l \in 1..Len(drive.ids) :
             k < l => ListedBefore(DrivePool[drive.ids[k]], DrivePool[drive.ids[l]])
        /\ drive.listing = "ok" =>
             { drive.ids[k] : k \in 1..Len(drive.ids) }
                 = { i \in MostRecent : ~DownloadFailed(i) }
        /\ drive.listing # "ok" => drive.paths = <<>>

Logged(event) == \E k \in 1..Len(cli.log) : cli.log[k] = event

\* C13: a count below 1 ends the run with status 1 before the temporary
\* folder, the drive or any model request; a count of at least 1 goes on
\* to the download step.
C13_CountBelowOneRejected ==
    /\ cli.at # "start" /\ cli.num_images < 1 =>
         /\ cli.at = "exited"
         /\ cli.exit_code = 1
         /\ cli.log = <<>>
         /\ reqs = <<>>
         /\ drive.at = "idle"
    /\ cli.at # "start" /\ cli.num_images >= 1 =>
         /\ cli.log[1] = "mkdtemp"
         /\ \/ cli.at = "step1"
            \/ cli.raised = "KeyboardInterrupt"
            \/ cli.log[2] = "authenticate"

C13_Witness ==
    /\ cli.at = "exited"
    /\ cli.num_images = 0
    /\ cli.exit_code = 1
    /\ cli.token = "valid"
    /\ drive.folder # {}

\* C14: the exit code is nonzero when an exception raised during the run
\* is not handled, and 0 otherwise.
C14_ExitCode ==
    cli.at = "exited" =>
        (cli.exit_code # 0 <=> (cli.raised # "none" /\ cli.pending # "none"))

C14_Witness ==
    /\ cli.at = "exited"
    /\ cli.raised = "OSError"
    /\ cli.pending = "none"
    /\ cli.exit_code = 0
    /\ Logged("download")

NoCredentials == ~cli.credentials /\ cli.token # "valid"
NoApiKey == IsNone(cli.openai_key) /\ IsNone(cli.environ_key)

\* C15: without a credentials file and a valid saved token the run ends
\* with a nonzero exit before anything is listed or downloaded; without an
\* API key it ends with a nonzero exit before any download, model request,
\* audio or presentation step.
C15_SetupErrorsFatal ==
    cli.at = "exited" /\ cli.num_images >= 1 /\ cli.raised # "KeyboardInterrupt" =>
        /\ NoCredentials =>
             /\ cli.exit_code # 0
             /\ ~Logged("list")
             /\ ~Logged("download")
        /\ NoApiKey =>
             /\ cli.exit_code # 0
             /\ ~Logged("download")
             /\ reqs = <<>>
             /\ ~Logged("text_to_speech")
             /\ ~Logged("create_presentation")

\* C17: after analyze_multiple_images has returned its result, the
\* sentinel included, main calls text_to_speech with the returned narration
\* and, when audio succeeded, create_presentation with the returned paths.
C17_DownstreamStagesRun ==
    cli.at = "exited" /\ pc = "returned" /\ cli.raised # "KeyboardInterrupt" =>
        /\ Logged("text_to_speech")
        /\ tts.at = "done"
        /\ tts.text = narration_text
        /\ tts.ret => Logged("create_presentation") /\ cli.slides = jpg_image_paths

\* the five classes in the order of the claim, with their keywords
ClassNames == <<"Coin", "Brass Pot", "Sword", "Bone", "Stone Drawing">>
ClassWords == << {KwCoin}, {KwPot, KwVessel}, {KwSword}, {KwBone}, {KwDrawing, KwCarving} >>

\* the pairs <<i, c>> such that finding i mentions class c
Mentioned ==
    LET low == [i \in 1..Len(all_analyses) |-> Lower(all_analyses[i])]
    IN  { p \in (1..Len(all_analyses)) \X (1..Len(ClassNames)) :
            \E w \in ClassWords[p[2]] : Contains(low[p[1]], w) }

\* place of the pair p among the pairs of m, findings first
Place(p, m) ==
    1 + Cardinality({ q \in m : q[1] < p[1] \/ (q[1] = p[1] /\ q[2] < p[2]) })

\* info is the excerpt the claim describes for the finding f
IsExcerpt(info, f) ==
    IF Len(f) <= 100 THEN info = f
    ELSE /\ Len(info) = 103
         /\ \A k \in 1..100 : info[k] = f[k]
         /\ \A k \in 101..103 : info[k] = "."

\* C21: the keyword fallback scans the findings in input order and gives,
\* per finding and in the order Coin, Brass Pot, Sword, Bone, Stone
\* Drawing, one record for each class whose keyword occurs in the
\* lowercased finding and none otherwise, without deduplication;
\* additional_info is the finding when it has at most 100 characters, else
\* its first 100 characters followed by "...".
C21_FallbackRecords ==
    FellBack =>
        LET m == Mentioned
        IN  /\ Len(artifacts.v) = Cardinality(m)
            /\ \A p \in m :
                 LET record == artifacts.v[Place(p, m)]
                 IN  /\ GetKey(record, "name") = JStr(<<ClassNames[p[2]]>>)
                     /\ IsExcerpt(GetKey(record, "additional_info").v, all_analyses[p[1]])

C21_Witness ==
    /\ FellBack
    /\ Len(all_analyses) = 2
    /\ Len(all_analyses[1]) = 103
    /\ Mentioned = {<<1, 3>>, <<2, 2>>, <<2, 4>>, <<2, 5>>}
    /\ Len(artifacts.v) = 4

\* the stage an entry of the log belongs to
StageOf(event) ==
    CASE event = "mkdtemp" -> 0
      [] event \in {"authenticate", "list", "download"} -> 1
      [] event \in {"analyzer_init", "analyze"} -> 2
      [] event = "text_to_speech" -> 3
      [] event = "create_presentation" -> 4
      [] event = "open_in_browser" -> 5
      [] OTHER -> 6

\* the gates of C22: what has run ran in stage order and behind its gate
StagesGated ==
    /\ \A i, j \in 1..Len(cli.log) : i < j => StageOf(cli.log[i]) <= StageOf(cli.log[j])
    /\ Logged("analyze") => drive.at = "returned" /\ drive.paths # <<>>
    /\ Logged("text_to_speech") => pc = "returned"
    /\ Logged("create_presentation") => tts.at = "done" /\ tts.ret
    /\ Logged("open_in_browser") => Logged("create_presentation") /\ cli.raised = "none"
    /\ drive.at = "raised" => ~Logged("analyzer_init")
    /\ pc = "raised" => ~Logged("text_to_speech")

\* C22: the stages of main run in the order download, analysis, audio,
\* presentation, browser, each behind its gate: analysis needs a downloaded
\* image, the presentation needs text_to_speech to have returned True, the
\* browser needs the presentation's path, and a failed stage stops the
\* later ones; a stage whose gate is open runs.
C22_GatedStages ==
    /\ StagesGated
    /\ cli.at = "exited" /\ pc = "returned" /\ cli.raised # "KeyboardInterrupt" =>
         /\ Logged("text_to_speech")
         /\ tts.ret => Logged("create_presentation")

\* C23: once the temporary folder exists, every end of the run (nothing
\* downloaded, a caught exception, Ctrl-C, a fatal setup exit, completion)
\* passes through the cleanup that removes the folder, and the cleanup
\* leaves the audio and presentation files of the working directory alone.
C23_CleanupAlwaysRuns ==
    cli.at = "exited" /\ Logged("mkdtemp") =>
        /\ cli.log[Len(cli.log)] = "rmtree"
        /\ cli.cleanup = "ok" => cli.temp_dir = "removed"
        /\ tts.at = "done" /\ tts.saved => "mp3" \in cli.cwd
        /\ Logged("open_in_browser") => "html" \in cli.cwd

C23_Witness ==
    /\ cli.at = "exited"
    /\ cli.raised = "SystemExit"
    /\ Logged("analyzer_init")
    /\ Logged("download")
    /\ cli.exit_code = 1
    /\ cli.temp_dir = "removed"

\* C24: in every generated page, after any events, currentIndex is a valid
\* index into the embedded images and the displayed slide number is
\* currentIndex + 1 and lies between 1 and the displayed total.
C24_SlideIndexValid ==
    page.at = "open" =>
        /\ page.currentIndex \in 0..(Len(page.images) - 1)
        /\ page.currentSlide = page.currentIndex + 1
        /\ 1 <= page.currentSlide
        /\ page.currentSlide <= page.totalSlides

\* C25: for every image of a batch run, the file opened and sent to the
\* vision model is the one at the normalized path the result holds at the
\* same position: the second normalization, inside analyze_image, yields
\* the path the first one yielded.
C25_SentFileIsReturnedPath ==
    \A k \in 1..Len(recog) :
        /\ recog[k].opened = jpg_image_paths[k]
        /\ recog[k].sent # <<>> => recog[k].sent = jpg_image_paths[k]

\* C26: within one run the files of distinct inputs stay distinct:
\* normalizing one image never writes the path of another image of the
\* run, a download never lands on the path of another download, and the
\* returned paths are pairwise different.
C26_DistinctInputsStayDistinct ==
    /\ \A i, j \in 1..Len(jpg_image_paths) :
         i # j /\ image_paths[i] # image_paths[j] =>
             /\ jpg_image_paths[i] # image_paths[i] => jpg_image_paths[i] # image_paths[j]
             /\ jpg_image_paths[i] # jpg_image_paths[j]
    /\ drive.at = "returned" =>
         \A k, l \in 1..Len(drive.paths) : k # l => drive.paths[k] # drive.paths[l]

\* C27: after a song has been started at volume 10, the volume is not
\* raised to 80 until 20 seconds after the most recent song start: every
\* raise to 80 (gap is the time since the latest start) comes 20 s or later.
C27_LowPeriodBeforeLoud ==
    calc.at # "unused" => (calc.gap = -1 \/ calc.gap >= SleepSeconds)

====
